---- MODULE Spec2Model ----
(***************************************************************************)
(* lid-backlightd: the lid reaction engine (struct State and its           *)
(* handlers), device discovery, the reconnect loop with its Backoff, and   *)
(* the shutdown path of main, modelled from src/src/main.rs.               *)
(*                                                                         *)
(* Every file-system and D-Bus operation is an external collaborator: its  *)
(* outcome is an input of the step that performs it, drawn from the sets   *)
(* below.  A handler is a set-valued operator: the set of all              *)
(* [s |-> machine after, r |-> result] pairs the code can produce, one per *)
(* combination of outcomes of the operations it actually performs.         *)
(***************************************************************************)
EXTENDS Integers, Sequences, FiniteSets, TLC

\* Largest number a brightness / max_brightness file holds in the model.
MaxValue == 1

\* Largest --restore-min the model is started with.
MaxRestoreMin == 2

\* Backoff::new(Duration::from_millis(250), Duration::from_secs(5)), in ms.
BackoffBase == 250

BackoffMax == 5000

\* Option<T>: None is the empty tuple, Some(x) the one-element tuple.
None == <<>>

Some(x) == <<x>>

Unwrap(o) == o[1]

\* anyhow::Result: Ok(v), or Err(chain) with the chain of causes, outermost
\* context first (anyhow::Error::chain()).
Ok(v) == [ok |-> TRUE, val |-> v, chain |-> <<>>]

Err(chain) == [ok |-> FALSE, val |-> 0, chain |-> chain]

\* The causes the code tells apart: std::io::Error of kind NotFound, any
\* other std::io::Error, and the ParseIntError of str::parse::<u32>.
IoNotFound == "io::Error(NotFound)"

IoOther == "io::Error(PermissionDenied)"

ParseIntError == "ParseIntError"

\* Entries of /sys/class/backlight the model knows.
DeviceNames == {"acpi_video0", "amdgpu_bl1", "intel_backlight"}

\* The --device overrides the model is started with: none, or a name that
\* the enumeration may or may not hold.
DeviceOverrides == {None, Some("acpi_video0")}

\* The bytes of a name: String's Ord compares them lexicographically.
Bytes(name) ==
    CASE name = "acpi_video0" -> <<97, 99, 112, 105, 95, 118, 105, 100, 101, 111, 48>>
      [] name = "amdgpu_bl1" -> <<97, 109, 100, 103, 112, 117, 95, 98, 108, 49>>
      [] name = "intel_backlight" ->
            <<105, 110, 116, 101, 108, 95, 98, 97, 99, 107, 108, 105, 103, 104, 116>>

RECURSIVE SeqLess(_, _)
SeqLess(a, b) ==
    IF a = <<>> THEN b # <<>>
    ELSE IF b = <<>> THEN FALSE
    ELSE IF a[1] # b[1] THEN a[1] < b[1]
    ELSE SeqLess(Tail(a), Tail(b))

\* A slip in lines 342-343: the last name of the sorted list is taken.
SortedFirst_last(devices) ==
    CHOOSE d \in devices : \A e \in devices \ {d} : SeqLess(Bytes(e), Bytes(d))

\* devices.sort(); devices[0]
SortedFirst(devices) ==
    CHOOSE d \in devices : \A e \in devices \ {d} : SeqLess(Bytes(d), Bytes(e))

\* One device operation as the step's I/O trace records it.
IoEntry(op, dev, val, res) == [op |-> op, dev |-> dev, val |-> val, res |-> res]

\* How an operation ended, from its result.
ResOf(r) ==
    IF r.ok THEN "ok"
    ELSE IF \E i \in 1..Len(r.chain) : r.chain[i] = IoNotFound THEN "not_found"
    ELSE IF \E i \in 1..Len(r.chain) : r.chain[i] = ParseIntError THEN "parse"
    ELSE "io_other"

Traced(s, e) == [s EXCEPT !.io = Append(@, e)]

Logged(s, msg) == [s EXCEPT !.log = Append(@, msg)]

\* read_u32: read_to_string fails (not found or otherwise), the trimmed text
\* does not parse, or the number read.
read_u32 ==
    {Err(<<"read", IoNotFound>>), Err(<<"read", IoOther>>),
     Err(<<"parse u32", ParseIntError>>)}
    \cup {Ok(v) : v \in 0..MaxValue}

\* write_u32: std::fs::write fails (not found or otherwise) or succeeds.
write_u32(value) ==
    {Err(<<"write", IoNotFound>>), Err(<<"write", IoOther>>), Ok(value)}

\* list_backlight_devices: read_dir fails, or the names it yields.
list_backlight_devices ==
    {[ok |-> FALSE, val |-> {}, chain |-> <<"read backlight directory", IoNotFound>>],
     [ok |-> FALSE, val |-> {}, chain |-> <<"read backlight directory", IoOther>>]}
    \cup {[ok |-> TRUE, val |-> devs, chain |-> <<>>] : devs \in SUBSET DeviceNames}

\* struct Backlight; brightness_path is BACKLIGHT_ROOT/name/brightness.
Backlight(name, max_brightness) == [name |-> name, max_brightness |-> max_brightness]

NoBacklight == Backlight("", 0)

DevOk(s, b) == [s |-> s, r |-> [ok |-> TRUE, val |-> b, chain |-> <<>>]]

DevErr(s, chain) == [s |-> s, r |-> [ok |-> FALSE, val |-> NoBacklight, chain |-> chain]]

\* Backlight::new(name): reads max_brightness.
Backlight_new(s, name) ==
    {LET t == Traced(s, IoEntry("read_max", name, m.val, ResOf(m)))
     IN  IF m.ok THEN DevOk(t, Backlight(name, m.val))
         ELSE DevErr(t, <<"read max_brightness">> \o m.chain)
     : m \in read_u32}

\* Lines 330-346 of discover_device, once the enumeration has returned devices.
discover_listed(t, device_override, devices) ==
    IF devices = {} THEN {DevErr(t, <<"no backlight devices found">>)}
    ELSE IF device_override # None
         THEN IF Unwrap(device_override) \notin devices
              THEN {DevErr(t, <<"requested device not found">>)}
              ELSE Backlight_new(t, Unwrap(device_override))
    ELSE IF "intel_backlight" \in devices
         THEN Backlight_new(t, "intel_backlight")
    ELSE Backlight_new(t, SortedFirst(devices))

\* discover_device(device_override)
discover_device(s, device_override) ==
    UNION {
        LET t == Traced(s, IoEntry("list", "", Cardinality(l.val), ResOf(l)))
        IN  IF ~l.ok THEN {DevErr(t, <<"list backlight devices">> \o l.chain)}
            ELSE discover_listed(t, device_override, l.val)
        : l \in list_backlight_devices}

\* What a handler returns next to the machine: Result<()>.
Done(s) == [s |-> s, r |-> Ok(0)]

Failed(s, chain) == [s |-> s, r |-> Err(chain)]

\* State::new(restore_min), with the observations of a step cleared.
State_new(restore_min) ==
    [device |-> None, saved_brightness |-> None, restore_min |-> restore_min,
     last_device_error |-> None,
     io |-> <<>>, log |-> <<>>, classified |-> <<>>, panic |-> FALSE]

\* State::log_device_error: the warning is rate limited by wall-clock time,
\* which the model leaves out; whichever branch runs, last_device_error is
\* Some(instant) afterwards.
log_device_error(s, err) == [s EXCEPT !.last_device_error = Some("Instant")]

\* A slip in lines 164-171: a not-found cause does not drop the device.
handle_device_error_keeps_device(s, err) ==
    log_device_error([s EXCEPT !.classified = Append(@, err)], err)

\* A slip in lines 164-171: every error drops the device.
handle_device_error_any(s, err) ==
    log_device_error([s EXCEPT !.device = None, !.classified = Append(@, err)], err)

\* State::handle_device_error(err), err given by its chain of causes.
handle_device_error(s, err) ==
    LET not_found == \E i \in 1..Len(err) : err[i] = IoNotFound
        t == IF not_found THEN [s EXCEPT !.device = None] ELSE s
        u == [t EXCEPT !.classified = Append(@, err)]
    IN  log_device_error(u, err)

\* State::ensure_device(config)
ensure_device(s, config) ==
    IF s.device # None THEN {Done(s)}
    ELSE {IF d.r.ok THEN Done([d.s EXCEPT !.device = Some(d.r.val)])
          ELSE Failed(d.s, d.r.chain)
          : d \in discover_device(s, config.device)}

\* The tail of on_lid_close: the log line that reports the outcome.
CloseOutcome(s, dimmed) ==
    Done(Logged(s, IF dimmed THEN "Lid closed, dimmed backlight"
                   ELSE "Lid closed, failed to dim backlight"))

\* A slip in lines 109-118: the fallback write of 1 follows the write of 0
\* even when that succeeded.
DimWrites_always_fallback(s, name) ==
    UNION {
        LET v == Traced(s, IoEntry("write", name, 0, ResOf(w0)))
            x == IF w0.ok THEN v ELSE handle_device_error(v, w0.chain)
        IN  {LET y == Traced(x, IoEntry("write", name, 1, ResOf(w1)))
             IN  IF w1.ok THEN CloseOutcome(y, TRUE)
                 ELSE CloseOutcome(handle_device_error(y, w1.chain), w0.ok)
             : w1 \in write_u32(1)}
        : w0 \in write_u32(0)}

\* Lines 108-125 of on_lid_close: write 0, fall back to 1.
DimWrites(s, name) ==
    UNION {
        LET v == Traced(s, IoEntry("write", name, 0, ResOf(w0)))
        IN  IF w0.ok THEN {CloseOutcome(v, TRUE)}
            ELSE {LET y == Traced(handle_device_error(v, w0.chain),
                                  IoEntry("write", name, 1, ResOf(w1)))
                  IN  IF w1.ok THEN CloseOutcome(y, TRUE)
                      ELSE CloseOutcome(handle_device_error(y, w1.chain), FALSE)
                  : w1 \in write_u32(1)}
        : w0 \in write_u32(0)}

\* A slip in lines 104-106: the snapshot is never stored.
SaveSnapshot_forgets(t, cur) == t

\* Lines 104-106 of on_lid_close: keep the first snapshot.
SaveSnapshot(t, cur) ==
    IF t.saved_brightness = None THEN [t EXCEPT !.saved_brightness = Some(cur)] ELSE t

\* A slip in line 102: `read_u32(..).unwrap_or(0)`, a failed read of the
\* brightness does not end on_lid_close.
on_lid_close_reads_blind(s, config) ==
    UNION {
        IF ~e.r.ok THEN {e}
        ELSE IF e.s.device = None THEN {Failed(e.s, <<"backlight device missing">>)}
        ELSE LET name == Unwrap(e.s.device).name
             IN  UNION {
                    LET t == Traced(e.s, IoEntry("read", name, cur.val, ResOf(cur)))
                    IN  DimWrites(SaveSnapshot(t, cur.val), name)
                    : cur \in read_u32}
        : e \in ensure_device(s, config)}

\* State::on_lid_close(config)
on_lid_close(s, config) ==
    UNION {
        IF ~e.r.ok THEN {e}
        ELSE IF e.s.device = None THEN {Failed(e.s, <<"backlight device missing">>)}
        ELSE LET name == Unwrap(e.s.device).name
             IN  UNION {
                    LET t == Traced(e.s, IoEntry("read", name, cur.val, ResOf(cur)))
                    IN  IF ~cur.ok THEN {Failed(t, <<"read brightness">> \o cur.chain)}
                        ELSE DimWrites(SaveSnapshot(t, cur.val), name)
                    : cur \in read_u32}
        : e \in ensure_device(s, config)}

\* u32::min
Min(a, b) == IF a < b THEN a ELSE b

\* A slip in line 144: the floor is not applied.
Clamp_no_floor(v, lo, hi) == IF v > hi THEN hi ELSE v

\* Ord::clamp(self, min, max), defined for min <= max (it asserts that).
Clamp(v, lo, hi) == IF v < lo THEN lo ELSE IF v > hi THEN hi ELSE v

\* Lines 143-144 of on_lid_open: the restore target.
RestoreMin(restore_min, max_brightness) == Min(restore_min, max_brightness)

\* A slip in lines 146-151: a successful restore leaves saved_brightness set.
RestoreWritten_keeps_saved(t, w) ==
    IF ~w.ok THEN Done(handle_device_error(t, w.chain))
    ELSE Done(Logged(t, "Lid opened, restored backlight"))

\* A slip in lines 146-151: saved_brightness is cleared whether or not the
\* restore write succeeded.
RestoreWritten_always_clears(t, w) ==
    IF ~w.ok
    THEN Done([handle_device_error(t, w.chain) EXCEPT !.saved_brightness = None])
    ELSE Done([Logged(t, "Lid opened, restored backlight")
                 EXCEPT !.saved_brightness = None])

\* Lines 146-151 of on_lid_open, once write_u32(restore) has returned w.
RestoreWritten(t, w) ==
    IF ~w.ok THEN Done(handle_device_error(t, w.chain))
    ELSE Done([Logged(t, "Lid opened, restored backlight")
                 EXCEPT !.saved_brightness = None])

\* State::on_lid_open(config)
on_lid_open(s, config) ==
    IF s.saved_brightness = None THEN {Done(s)}
    ELSE LET saved == Unwrap(s.saved_brightness) IN
    UNION {
        IF ~e.r.ok THEN {e}
        ELSE IF e.s.device = None THEN {Failed(e.s, <<"backlight device missing">>)}
        ELSE LET device == Unwrap(e.s.device)
                 min_restore == RestoreMin(e.s.restore_min, device.max_brightness)
                 restore == Clamp(saved, min_restore, device.max_brightness)
             IN  IF min_restore > device.max_brightness
                 THEN {Done([e.s EXCEPT !.panic = TRUE])}
                 ELSE {RestoreWritten(
                           Traced(e.s, IoEntry("write", device.name, restore, ResOf(w))), w)
                       : w \in write_u32(restore)}
        : e \in ensure_device(s, config)}

\* A slip in lines 81-93: the handlers run whatever saved_brightness holds.
handle_lid_change_unguarded(s, config, closed) ==
    IF closed THEN on_lid_close(s, config) ELSE on_lid_open(s, config)

\* State::handle_lid_change(config, closed)
handle_lid_change(s, config, closed) ==
    IF closed
    THEN IF s.saved_brightness = None THEN on_lid_close(s, config) ELSE {Done(s)}
    ELSE IF s.saved_brightness # None THEN on_lid_open(s, config) ELSE {Done(s)}

\* A slip in lines 157-160: restore_on_exit returns without restoring.
restore_on_exit_skips(s, config) == {Done(s)}

\* State::restore_on_exit(config)
restore_on_exit(s, config) ==
    IF s.saved_brightness = None THEN {Done(s)} ELSE on_lid_open(s, config)

\* A slip at the call sites: `<handler>?` in place of the `if let Err`.
Caught_propagates(outcomes) == {[s |-> o.s, escaped |-> ~o.r.ok] : o \in outcomes}

\* `if let Err(err) = <handler> { state.handle_device_error(&err) }`: how
\* main (187-189) and process_connection (265-267, 302-304) take a handler's
\* result.  escaped tells whether the error leaves the caller (it never does).
Caught(outcomes) ==
    {[s |-> IF o.r.ok THEN o.s ELSE handle_device_error(o.s, o.r.chain),
      escaped |-> FALSE] : o \in outcomes}

\* `if let Err(err) = state.restore_on_exit(&config) { warn!(..) }` (203-205).
Warned(outcomes) == {[s |-> o.s, escaped |-> FALSE] : o \in outcomes}

\* struct Backoff
Backoff_new(base, max) == [base |-> base, max |-> max, current |-> base]

\* A slip in line 408: reset leaves current as it is.
reset_keeps_current(b) == b

\* Backoff::reset
reset(b) == [b EXCEPT !.current = b.base]

\* A slip in lines 412-414: current is doubled before it is returned.
next_delay_doubles_first(b) ==
    [delay |-> Min(b.current * 2, b.max),
     b |-> [b EXCEPT !.current = Min(b.current * 2, b.max)]]

\* Backoff::next_delay: the delay returned and the Backoff afterwards.
next_delay(b) ==
    [delay |-> b.current, b |-> [b EXCEPT !.current = Min(b.current * 2, b.max)]]

\* const LOGIND_IFACE
LOGIND_IFACE == "org.freedesktop.login1.Manager"

\* Something taken from the bus: where it came from (src), whether
\* signal.args() decodes it, the interface it names, and what it holds for
\* LidClosed: "true", "false", "invalid" (a value that is no bool), "absent"
\* (no such property among the changed ones) or "error" (the get failed).
Heard(src, decodes, interface, lid) ==
    [src |-> src, decodes |-> decodes, interface |-> interface, lid |-> lid]

Silence == Heard("none", TRUE, "", "absent")

StreamEnd == Heard("end", TRUE, "", "absent")

\* A bus operation of run_loop that failed: the Err arm of its match or `?`.
Failure(src) == Heard(src, TRUE, "", "error")

\* How a bus operation of run_loop ended, as the step records it.
Outcome(src, ok) == IF ok THEN Silence ELSE Failure(src)

\* The outcomes of proxy.get(iface, "LidClosed").await.
Replies == {"error", "invalid", "true", "false"}

Reply(reply) == Heard("get", TRUE, LOGIND_IFACE, reply)

\* The PropertiesChanged signals the stream yields in the model: one whose
\* body does not decode, one of another interface that holds LidClosed, and
\* those of logind's Manager with LidClosed absent, no bool, true or false.
Signals ==
    {Heard("stream", FALSE, LOGIND_IFACE, "true"),
     Heard("stream", TRUE, "org.freedesktop.login1.Session", "true")}
    \cup {Heard("stream", TRUE, LOGIND_IFACE, lid)
          : lid \in {"absent", "invalid", "true", "false"}}

\* A slip in lines 262-268: the reply is logged and never handled.
InitialLid_unhandled(reply) == None

\* Lines 261-276: the lid state the reply to the initial get holds, if any.
InitialLid(reply) ==
    IF reply = "error" THEN None
    ELSE IF reply = "invalid" THEN None
    ELSE Some(reply = "true")

\* A slip in lines 287-289: the interface of the signal is not compared.
LidChange_any_interface(item) ==
    IF ~item.decodes THEN None
    ELSE IF item.lid = "absent" THEN None
    ELSE IF item.lid = "invalid" THEN None
    ELSE Some(item.lid = "true")

\* Lines 280-300: the lid state a stream item holds, if it passes the filters.
LidChange(item) ==
    IF ~item.decodes THEN None
    ELSE IF item.interface # LOGIND_IFACE THEN None
    ELSE IF item.lid = "absent" THEN None
    ELSE IF item.lid = "invalid" THEN None
    ELSE Some(item.lid = "true")

VARIABLES
    state,          \* struct State: device, saved_brightness, restore_min, last_device_error
    config,         \* struct Config: device (the --device override)
    pc,             \* where main / run_loop / process_connection stands
    backoff,        \* run_loop's Backoff
    delay,          \* the delay run_loop sleeps (0 while it does not sleep)
    signalled,      \* shutdown_signal() has resolved
    event,          \* what the latest step delivered: "closed", "open", "exit" or "none"
    io,             \* the device operations of the latest step, in order
    log,            \* the outcome lines the latest step logged
    classified,     \* the error chains the latest step gave to handle_device_error
    closed_pending, \* history: a closed event was delivered, no restore write succeeded since
    dim_pending,    \* history: a closed event reached its dim write, no restore write succeeded since
    restored,       \* history: a restore write succeeded, no closed event was delivered since
    failed_restore, \* history: the latest restore write, if it failed and the device stayed selected
    last_lid,       \* history: the latest lid event delivered: "closed", "open" or "none"
    invalidated,    \* history: "yes" once a not-found error is classified, "recovered" once a
                    \* lid event has then run its device operations without one, else "no"
    since_reset,    \* history: the latest delay next_delay returned since the last reset (0: none yet)
    heard,          \* what the latest step took from the bus: the reply to the initial get,
                    \* an item of the PropertiesChanged stream, its end, or nothing
    retrying        \* history: a delay was slept since the stream was last subscribed (or since start)

vars == <<state, config, pc, backoff, delay, signalled, event, io, log, classified,
          closed_pending, dim_pending, restored, failed_restore, last_lid, invalidated,
          since_reset, heard, retrying>>

StateFields == {"device", "saved_brightness", "restore_min", "last_device_error"}

\* The machine a step starts from: the State, with nothing observed yet.
Machine ==
    [device |-> state.device, saved_brightness |-> state.saved_brightness,
     restore_min |-> state.restore_min, last_device_error |-> state.last_device_error,
     io |-> <<>>, log |-> <<>>, classified |-> <<>>, panic |-> FALSE]

Writes(trace) == SelectSeq(trace, LAMBDA e : e.op = "write")

OkWrite(trace) == \E i \in 1..Len(trace) : trace[i].op = "write" /\ trace[i].res = "ok"

HasNotFound(chain) == \E i \in 1..Len(chain) : chain[i] = IoNotFound

NotFoundIn(chains) == \E i \in 1..Len(chains) : HasNotFound(chains[i])

\* The history variables after a step that delivered ev and left machine m.
History(ev, m) ==
    /\ closed_pending' =
         IF ev = "closed" THEN TRUE
         ELSE IF ev \in {"open", "exit"} /\ OkWrite(m.io) THEN FALSE
         ELSE closed_pending
    /\ dim_pending' =
         IF ev = "closed" /\ Writes(m.io) # <<>> THEN TRUE
         ELSE IF ev \in {"open", "exit"} /\ OkWrite(m.io) THEN FALSE
         ELSE dim_pending
    /\ restored' =
         IF ev = "closed" THEN FALSE
         ELSE IF ev \in {"open", "exit"} /\ OkWrite(m.io) THEN TRUE
         ELSE restored
    /\ failed_restore' =
         LET w == Writes(m.io)
         IN  IF ev \in {"open", "exit"} /\ w # <<>>
             THEN IF w[Len(w)].res # "ok" /\ m.device # None
                  THEN Some([dev |-> w[Len(w)].dev, val |-> w[Len(w)].val,
                             again |-> failed_restore # None])
                  ELSE None
             ELSE IF m.device = None \/ m.io # <<>> THEN None
             ELSE failed_restore
    /\ last_lid' = IF ev \in {"closed", "open"} THEN ev ELSE last_lid
    /\ invalidated' =
         IF NotFoundIn(m.classified) THEN "yes"
         ELSE IF ev \in {"closed", "open"} /\ m.io # <<>>
              THEN IF invalidated = "yes" THEN "recovered" ELSE "no"
         ELSE invalidated

\* A step leaves machine m behind: the State and what the step did.
Leaves(ev, m) ==
    /\ state' = [f \in StateFields |-> m[f]]
    /\ event' = ev
    /\ io' = m.io
    /\ log' = m.log
    /\ classified' = m.classified
    /\ History(ev, m)

\* A step of the loop that touches neither the State nor the device.
Quiet == Leaves("none", Machine)

\* A slip in lines 219-255: a failure ends run_loop instead of being retried.
BackOff_gives_up ==
    /\ pc' = "failed"
    /\ retrying' = TRUE
    /\ UNCHANGED <<backoff, delay, since_reset>>

\* `let delay = backoff.next_delay(); sleep(delay).await`
BackOff ==
    LET n == next_delay(backoff)
    IN  /\ backoff' = n.b
        /\ delay' = n.delay
        /\ since_reset' = n.delay
        /\ retrying' = TRUE
        /\ pc' = "sleep"

\* The step goes on within run_loop without touching its Backoff.
GoOn(to) ==
    /\ pc' = to
    /\ UNCHANGED <<backoff, delay, since_reset, retrying>>

Init ==
    /\ \E rm \in 0..MaxRestoreMin :
         state = [f \in StateFields |-> State_new(rm)[f]]
    /\ \E o \in DeviceOverrides : config = [device |-> o]
    /\ pc = "start"
    /\ backoff = Backoff_new(BackoffBase, BackoffMax)
    /\ delay = 0
    /\ signalled = FALSE
    /\ event = "none"
    /\ io = <<>>
    /\ log = <<>>
    /\ classified = <<>>
    /\ closed_pending = FALSE
    /\ dim_pending = FALSE
    /\ restored = FALSE
    /\ failed_restore = None
    /\ last_lid = "none"
    /\ invalidated = "no"
    /\ since_reset = 0
    /\ heard = Silence
    /\ retrying = FALSE

\* main, lines 186-189: the warm-up discovery.
main_warmup ==
    /\ pc = "start"
    /\ \E c \in Caught(ensure_device(Machine, config)) :
         /\ Leaves("none", c.s)
         /\ pc' = IF c.escaped THEN "exit" ELSE "connect"
    /\ heard' = Silence
    /\ UNCHANGED <<config, backoff, delay, signalled, since_reset, retrying>>

\* A slip in lines 215-218: the Ok arm does not call backoff.reset().
connect_without_reset ==
    /\ pc = "connect"
    /\ \E ok \in BOOLEAN :
         /\ heard' = Outcome("connect", ok)
         /\ IF ok THEN GoOn("builder") ELSE BackOff
    /\ Quiet
    /\ UNCHANGED <<config, signalled>>

\* run_loop, lines 214-225: Connection::system().await
connect ==
    /\ pc = "connect"
    /\ \E ok \in BOOLEAN :
         /\ heard' = Outcome("connect", ok)
         /\ IF ok
            THEN /\ backoff' = reset(backoff)
                 /\ since_reset' = 0
                 /\ pc' = "builder"
                 /\ UNCHANGED <<delay, retrying>>
            ELSE BackOff
    /\ Quiet
    /\ UNCHANGED <<config, signalled>>

\* run_loop, lines 227-238: PropertiesProxy::builder(..).destination(..).path(..)
builder ==
    /\ pc = "builder"
    /\ \E ok \in BOOLEAN :
         /\ heard' = Outcome("builder", ok)
         /\ IF ok THEN GoOn("build") ELSE BackOff
    /\ Quiet
    /\ UNCHANGED <<config, signalled>>

\* run_loop, lines 240-248: proxy_builder.build().await
build ==
    /\ pc = "build"
    /\ \E ok \in BOOLEAN :
         /\ heard' = Outcome("build", ok)
         /\ IF ok THEN GoOn("get") ELSE BackOff
    /\ Quiet
    /\ UNCHANGED <<config, signalled>>

\* What a delivered lid event leaves, and where process_connection goes on:
\* at `on` when the handler's error was caught, and out of the connection
\* (run_loop's warn, lines 250-255) had it escaped.
Deliver(closed, on) ==
    \E c \in Caught(handle_lid_change(Machine, config, closed)) :
        /\ Leaves(IF closed THEN "closed" ELSE "open", c.s)
        /\ IF c.s.panic THEN GoOn("panic")
           ELSE IF c.escaped THEN BackOff
           ELSE GoOn(on)

\* What a reply or a stream item hands to handle_lid_change, if anything.
Pass(lid, on) ==
    IF lid = None THEN Quiet /\ GoOn(on) ELSE Deliver(Unwrap(lid), on)

\* A slip in lines 273-275: `proxy.get(..).await?`, the failed read leaves
\* process_connection as the failed subscribe does.
initial_probe_propagates ==
    /\ pc = "get"
    /\ \E reply \in Replies :
         /\ heard' = Reply(reply)
         /\ IF reply = "error" THEN Quiet /\ BackOff
            ELSE Pass(InitialLid(reply), "subscribe")
    /\ UNCHANGED <<config, signalled>>

\* process_connection, lines 260-276: the initial read of LidClosed.
initial_probe ==
    /\ pc = "get"
    /\ \E reply \in Replies :
         /\ heard' = Reply(reply)
         /\ Pass(InitialLid(reply), "subscribe")
    /\ UNCHANGED <<config, signalled>>

\* process_connection, line 278: proxy.receive_properties_changed().await?
subscribe ==
    /\ pc = "subscribe"
    /\ \E ok \in BOOLEAN :
         /\ heard' = Outcome("subscribe", ok)
         /\ IF ok
            THEN /\ pc' = "stream"
                 /\ retrying' = FALSE
                 /\ UNCHANGED <<backoff, delay, since_reset>>
            ELSE BackOff
    /\ Quiet
    /\ UNCHANGED <<config, signalled>>

\* process_connection, lines 279-307: one turn of `while let Some(signal)`.
notification ==
    /\ pc = "stream"
    /\ \/ \E item \in Signals :
            /\ heard' = item
            /\ Pass(LidChange(item), "stream")
       \/ /\ heard' = StreamEnd
          /\ Quiet
          /\ BackOff
    /\ UNCHANGED <<config, signalled>>

\* run_loop, lines 222, 235, 245, 255: sleep(delay).await has elapsed.
sleep_elapsed ==
    /\ pc = "sleep"
    /\ pc' = "connect"
    /\ delay' = 0
    /\ Quiet
    /\ heard' = Silence
    /\ UNCHANGED <<config, backoff, signalled, since_reset, retrying>>

\* A slip in lines 192-201: the shutdown branch is polled only between the
\* steps of run_loop, not while it sleeps or waits for the stream.
AwaitPoints_busy_only == {"connect", "build", "get", "subscribe"}

\* Where run_loop is suspended in an .await, so that select! can drop it.
AwaitPoints == {"connect", "build", "get", "subscribe", "stream", "sleep"}

\* shutdown_signal, lines 310-326: SIGINT or SIGTERM arrives.
signal ==
    /\ ~signalled
    /\ pc \notin {"exit", "panic"}
    /\ signalled' = TRUE
    /\ Quiet
    /\ heard' = Silence
    /\ UNCHANGED <<config, pc, backoff, delay, since_reset, retrying>>

\* main, lines 192-207: select! takes the shutdown branch, then the final restore.
shutdown ==
    /\ signalled
    /\ pc \in AwaitPoints
    /\ \E c \in Warned(restore_on_exit(Machine, config)) :
         /\ Leaves("exit", c.s)
         /\ pc' = IF c.s.panic THEN "panic" ELSE "exit"
    /\ delay' = 0
    /\ heard' = Silence
    /\ UNCHANGED <<config, backoff, signalled, since_reset, retrying>>

Next ==
    \/ main_warmup
    \/ connect
    \/ builder
    \/ build
    \/ initial_probe
    \/ subscribe
    \/ notification
    \/ sleep_elapsed
    \/ signal
    \/ shutdown

Spec == Init /\ [][Next]_vars

(***************************************************************************)
(* The claims.                                                             *)
(***************************************************************************)

Saved == state.saved_brightness

Reads(trace) == SelectSeq(trace, LAMBDA e : e.op = "read")

\* C1 as stated: saved_brightness is present exactly when a closed event was
\* delivered (whatever its discovery and read did) and no restore write has
\* succeeded since.
C1_AsStated == (Saved # None) <=> closed_pending

\* C1, amended: saved_brightness is present exactly when the latest effective
\* transition was a closed event that reached its dim write (its device
\* discovery and brightness read succeeded), not followed by a successful
\* restore write.
C1_SavedIffDimPending == (Saved # None) <=> dim_pending

\* A failed restore after a dim: the value is still saved.
C1_Witness ==
    /\ event = "open"
    /\ Writes(io) # <<>>
    /\ ~OkWrite(io)
    /\ dim_pending
    /\ Saved # None

\* C2 as stated, in its end state: a closed event that follows a closed
\* event, with no open event between them, writes nothing and leaves
\* saved_brightness as it was.  (The claim adds that it does not read the
\* brightness either; a run that breaks this part breaks the claim.)
C2_AsStated ==
    [][(last_lid = "closed" /\ event' = "closed")
        => (Writes(io') = <<>> /\ Saved' = Saved)]_vars

\* C2, amended: once a closed event has taken the brightness snapshot, a
\* later closed event with no open event between them performs no device
\* operation at all and leaves the State as it was.
C2_ClosedIdempotent ==
    [][(last_lid = "closed" /\ dim_pending /\ event' = "closed")
        => (io' = <<>> /\ state' = state)]_vars

\* A closed event that was a no-op after an earlier closed event.
C2_Witness ==
    /\ event = "closed"
    /\ io = <<>>
    /\ dim_pending
    /\ Saved # None

\* C3: after a successful restore, an open event with no closed event in
\* between writes nothing and leaves saved_brightness absent.
C3_OpenIdempotent ==
    [][(restored /\ event' = "open") => (Writes(io') = <<>> /\ Saved' = None)]_vars

\* An open event that was a no-op after a successful restore.
C3_Witness ==
    /\ restored
    /\ event = "open"
    /\ io = <<>>
    /\ Saved = None

\* The max_brightness of the device a restore step writes to: the selected
\* device's, or the one the step's own discovery read.
MaxAtWrite(trace) ==
    IF state.device # None THEN Unwrap(state.device).max_brightness
    ELSE LET r == SelectSeq(trace, LAMBDA e : e.op = "read_max" /\ e.res = "ok")
         IN  r[1].val

\* clamp(saved, min(floor, max), max), case by case.
IsRestoreTarget(v, saved, floor, max) ==
    LET lo == IF floor <= max THEN floor ELSE max
    IN  /\ lo <= v
        /\ v <= max
        /\ (saved < lo => v = lo)
        /\ (saved > max => v = max)
        /\ (lo <= saved /\ saved <= max => v = saved)

\* C4: every value a restore writes, on an open event or at shutdown, is
\* clamp(saved_brightness, min(restore_floor, max_brightness), max_brightness)
\* for the device written to; and the restore target of the code is 50, 1 and
\* 10 on the three examples.
C4_RestoreClamp ==
    [][/\ event' \in {"open", "exit"} =>
            \A i \in 1..Len(io') :
                io'[i].op = "write" =>
                    IsRestoreTarget(io'[i].val, Unwrap(Saved), state.restore_min,
                                    MaxAtWrite(io'))
       /\ Clamp(50, RestoreMin(1, 100), 100) = 50
       /\ Clamp(0, RestoreMin(1, 100), 100) = 1
       /\ Clamp(5, RestoreMin(10, 100), 100) = 10]_vars

\* A restore that wrote the floor, the floor itself capped by the device's
\* maximum: the saved value was below it.
C4_Witness ==
    /\ event = "open"
    /\ state.device # None
    /\ state.restore_min > Unwrap(state.device).max_brightness
    /\ \E i \in 1..Len(io) :
         /\ io[i].op = "write"
         /\ io[i].val = Unwrap(state.device).max_brightness
         /\ io[i].val > 0

\* C5: a restore write that succeeds clears saved_brightness; one that fails
\* leaves it as it was, and the next open event, the device still selected,
\* writes the same value to the same device again.
C5_RestoreRetry ==
    [][(event' = "open" /\ Saved # None) =>
          /\ OkWrite(io') => Saved' = None
          /\ ~OkWrite(io') => Saved' = Saved
          /\ failed_restore # None =>
                /\ Len(Writes(io')) = 1
                /\ Writes(io')[1].val = Unwrap(failed_restore).val
                /\ Writes(io')[1].dev = Unwrap(failed_restore).dev]_vars

\* A restore that failed again on the retry, the value still saved.
C5_Witness ==
    /\ event = "open"
    /\ failed_restore # None
    /\ Unwrap(failed_restore).again
    /\ Saved # None

\* C6: a closed event with nothing saved that gets to write writes 0 first
\* and 1 only after the write of 0 failed; it is logged as dimmed exactly
\* when one of the writes succeeded; whatever the writes did, the event ends
\* without an error of its own, saved_brightness is the brightness read and
\* only the failed writes were classified.  An open event that finds a value
\* saved attempts the restore.
C6_DimFallback ==
    [][/\ (event' = "closed" /\ Saved = None /\ Writes(io') # <<>>) =>
            LET w == Writes(io')
            IN  /\ w[1].val = 0
                /\ Len(w) <= 2
                /\ Len(w) = 2 <=> w[1].res # "ok"
                /\ Len(w) = 2 => w[2].val = 1
                /\ log' = IF OkWrite(io') THEN <<"Lid closed, dimmed backlight">>
                          ELSE <<"Lid closed, failed to dim backlight">>
                /\ Len(Reads(io')) = 1
                /\ Saved' = Some(Reads(io')[1].val)
                /\ Len(classified') = Cardinality({i \in 1..Len(w) : w[i].res # "ok"})
                /\ pc' = IF pc = "get" THEN "subscribe" ELSE pc
       /\ (event' = "open" /\ Saved # None) => io' # <<>>]_vars

\* Both writes failed: reported as not dimmed, the brightness still saved.
C6_Witness ==
    /\ event = "closed"
    /\ Len(Writes(io)) = 2
    /\ ~OkWrite(io)
    /\ log = <<"Lid closed, failed to dim backlight">>
    /\ Saved # None

NotFoundOp(trace) == \E i \in 1..Len(trace) : trace[i].res = "not_found"

\* The lid event of this step is not a no-op duplicate: closed with nothing
\* saved, or open with a value saved.
Effective == (event' = "closed" /\ Saved = None) \/ (event' = "open" /\ Saved # None)

\* C7 as stated: a step in which a device operation fails with not-found
\* leaves no device selected, and the next lid event delivered, whichever it
\* is, starts with device discovery.
C7_AsStated ==
    [][/\ NotFoundOp(io') => state'.device = None
       /\ (invalidated = "yes" /\ event' \in {"closed", "open"}) =>
            (io' # <<>> /\ io'[1].op = "list")]_vars

\* C7, amended: a step in which a device operation fails with not-found
\* leaves no device selected, and the next lid event that is not a no-op
\* duplicate (closed with nothing saved, open with a value saved) starts with
\* device discovery, before any read or write.
C7_Invalidation ==
    [][/\ NotFoundOp(io') => state'.device = None
       /\ (invalidated = "yes" /\ Effective) => (io' # <<>> /\ io'[1].op = "list")]_vars

\* A lid event after an invalidation that rediscovered a device.
C7_Witness ==
    /\ invalidated = "recovered"
    /\ event \in {"closed", "open"}
    /\ io[1].op = "list"
    /\ state.device # None

\* The error chains without an I/O not-found cause that reach classification.
OtherErrors ==
    {<<"read brightness", "read", IoOther>>,
     <<"read brightness", "parse u32", ParseIntError>>,
     <<"read max_brightness", "read", IoOther>>,
     <<"read max_brightness", "parse u32", ParseIntError>>,
     <<"list backlight devices", "read backlight directory", IoOther>>,
     <<"no backlight devices found">>,
     <<"requested device not found">>,
     <<"backlight device missing">>,
     <<"write", IoOther>>}

\* C8: classifying an error without an I/O not-found cause leaves
\* selected_device and saved_brightness as they were: in every state the
\* program reaches, for each such error; and a step that starts with a device
\* selected and classifies only such errors ends with that device selected.
C8_OtherErrorsFrame ==
    /\ [](\A err \in OtherErrors :
            LET after == handle_device_error(Machine, err)
            IN  /\ after.device = state.device
                /\ after.saved_brightness = Saved)
    /\ [][(state.device # None /\ classified' # <<>> /\ ~NotFoundIn(classified'))
            => state'.device = state.device]_vars

\* A permission or parse error was classified with a device selected and a
\* value saved.
C8_Witness ==
    /\ classified # <<>>
    /\ ~NotFoundIn(classified)
    /\ state.device # None
    /\ Saved # None

FailedOp(trace) == \E i \in 1..Len(trace) : trace[i].res # "ok"

\* C9: the process exits only on the shutdown signal and never panics; a
\* failed device operation of the warm-up or of a lid event is classified,
\* and the step that classified an error goes on as it does without one: the
\* warm-up to the first connection attempt, the probe to the subscription,
\* a notification to the next notification.
C9_DeviceErrorsContained ==
    [][/\ pc' # "panic"
       /\ pc' = "exit" => (signalled /\ event' = "exit")
       /\ (FailedOp(io') /\ event' # "exit") => classified' # <<>>
       /\ (classified' # <<>> /\ event' # "exit") =>
            \/ pc = "start" /\ pc' = "connect"
            \/ pc = "get" /\ pc' = "subscribe"
            \/ pc = "stream" /\ pc' = "stream"]_vars

\* A notification whose handler failed, the loop waiting for the next one.
C9_Witness ==
    /\ event = "closed"
    /\ pc = "stream"
    /\ FailedOp(io)
    /\ classified # <<>>
    /\ Saved = None

\* C10: a next_delay() with no reset() since the previous one returns at
\* least what that one returned (twice as much, up to the maximum); no delay
\* exceeds the maximum of 5 s; the first next_delay() after a reset(), or
\* after new(), returns the base of 250 ms.
C10_BackoffMonotone ==
    [][(pc' = "sleep" /\ pc # "sleep") =>
          /\ delay' <= BackoffMax
          /\ since_reset' = delay'
          /\ since_reset # 0 =>
                /\ delay' >= since_reset
                /\ delay' = IF 2 * since_reset <= BackoffMax THEN 2 * since_reset
                            ELSE BackoffMax
          /\ since_reset = 0 => delay' = BackoffBase]_vars

\* The delay has reached the maximum and stays there.
C10_Witness ==
    /\ pc = "sleep"
    /\ delay = BackoffMax
    /\ backoff.current = BackoffMax

\* The steps of main's warm-up and of run_loop / process_connection.
Run ==
    \/ main_warmup
    \/ connect
    \/ builder
    \/ build
    \/ initial_probe
    \/ subscribe
    \/ notification
    \/ sleep_elapsed

\* Where run_loop stands after a step from `from` that is not the shutdown.
After(from) ==
    CASE from = "start" -> {"connect"}
      [] from = "connect" -> {"builder", "sleep"}
      [] from = "builder" -> {"build", "sleep"}
      [] from = "build" -> {"get", "sleep"}
      [] from = "get" -> {"subscribe"}
      [] from = "subscribe" -> {"stream", "sleep"}
      [] from = "stream" -> {"stream", "sleep"}
      [] from = "sleep" -> {"connect"}
      [] OTHER -> {}

\* What the latest step took from the bus ends the connection attempt.
Broke(h) ==
    \/ h \in {Failure("connect"), Failure("builder"), Failure("build"),
              Failure("subscribe")}
    \/ h = StreamEnd

\* One step of the loop, as C11 has it.
C11_Retry ==
    /\ Broke(heard') => pc' = "sleep" /\ delay' = backoff.current
    /\ event' # "exit" /\ pc' # pc => pc' \in After(pc)
    /\ pc' = "sleep" /\ pc # "sleep" =>
         /\ pc \in {"connect", "builder", "build", "subscribe", "stream"}
         /\ delay' = backoff.current
         /\ delay' \in BackoffBase..BackoffMax
    /\ pc = "sleep" /\ event' # "exit" => delay = delay' \/ pc' = "connect"
    /\ pc' \notin {"start", "connect", "builder", "build", "get", "subscribe",
                   "stream", "sleep"} => signalled /\ event' = "exit" /\ pc' = "exit"

\* C11: the reconnect loop has no terminal state.  A failed connect, a failed
\* proxy build, a failed subscribe and the end of the stream each lead to the
\* sleep of exactly one backoff delay and from there to the next connection
\* attempt; however many attempts have failed, the loop can always take its
\* next step, and it is left only by the shutdown after the signal.
C11_NoTerminalState ==
    /\ [](pc # "exit" => ENABLED Run)
    /\ [][C11_Retry]_vars

\* The loop about to connect again after so many failures in a row that the
\* delay has reached its cap, with no signal received.
C11_Witness ==
    /\ pc = "connect"
    /\ backoff.current = BackoffMax
    /\ retrying
    /\ ~signalled

\* C12 as stated: a failed connect, a failed subscribe and a failed read of
\* the initial lid state each end the connection attempt, and the loop sleeps
\* a backoff delay before it tries again.
C12_AsStated ==
    [][heard' \in {Failure("connect"), Failure("subscribe"), Reply("error")}
         => pc' = "sleep" /\ delay' = backoff.current]_vars

\* C12, amended: a failed connect and a failed subscribe end the connection
\* attempt and the loop sleeps a backoff delay; a failed read of the initial
\* lid state does not: it is logged, no lid event is handled, the State and
\* the Backoff stay as they are, nothing is slept, and the same connection
\* goes on to subscribe.
C12_ReadFailureGoesOn ==
    [][/\ heard' \in {Failure("connect"), Failure("subscribe")} =>
            /\ pc' = "sleep"
            /\ delay' = backoff.current
            /\ delay' >= BackoffBase
       /\ heard' = Reply("error") =>
            /\ pc = "get" /\ pc' = "subscribe"
            /\ event' = "none" /\ io' = <<>> /\ classified' = <<>>
            /\ state' = state
            /\ backoff' = backoff /\ delay' = 0]_vars

\* The read of the initial lid state has failed and the connection is about
\* to subscribe.
C12_Witness ==
    /\ pc = "subscribe"
    /\ heard = Reply("error")
    /\ delay = 0

\* C13: the probe of a connection, the first one or one after a reconnect,
\* hands the lid state it read to the engine before the connection
\* subscribes.  Lid closed, nothing saved, discovery and every device
\* operation succeeding (no error is classified):
\* afterwards the brightness read is saved and 0 is the one value written.
\* Lid closed with a value saved: neither the State nor the device is
\* touched.  Lid open with a value saved: the restore runs, and with every
\* device operation succeeding it writes the restore target once and clears
\* saved_brightness.
C13_InitialProbe ==
    [][(pc = "get" /\ heard'.src = "get") =>
         /\ pc' = "subscribe"
         /\ heard' = Reply("true") => event' = "closed"
         /\ heard' = Reply("false") => event' = "open"
         /\ (heard' = Reply("true") /\ Saved = None /\ classified' = <<>>) =>
              /\ Reads(io') # <<>>
              /\ state'.saved_brightness = Some(Reads(io')[1].val)
              /\ Writes(io') = <<IoEntry("write", Unwrap(state'.device).name, 0, "ok")>>
         /\ (heard' = Reply("true") /\ Saved # None) =>
              /\ state' = state
              /\ io' = <<>>
         /\ (heard' = Reply("false") /\ Saved # None) =>
              /\ io' # <<>>
              /\ classified' = <<>> =>
                   /\ state'.saved_brightness = None
                   /\ Len(Writes(io')) = 1
                   /\ IsRestoreTarget(Writes(io')[1].val, Unwrap(Saved),
                                      state.restore_min, MaxAtWrite(io'))]_vars

\* After a reconnect the probe found the lid open while a value was saved,
\* and its restore write succeeded.
C13_Witness ==
    /\ pc = "subscribe"
    /\ heard = Reply("false")
    /\ event = "open"
    /\ OkWrite(io)
    /\ retrying
    /\ Saved = None

\* C14: the shutdown step makes one restore attempt when a value is saved:
\* discovery if no device is selected, then at most one write, exactly one
\* when a device is selected or discovered, of the restore target; whether
\* the attempt succeeds or fails the process exits.  With nothing saved the
\* step performs no device operation and leaves the State as it is.  After
\* the exit nothing happens any more: no lid event is handled.
C14_ShutdownRestore ==
    [][/\ pc # "exit"
       /\ event' = "exit" =>
            /\ signalled
            /\ pc' = "exit"
            /\ Saved = None => io' = <<>> /\ state' = state
            /\ Saved # None =>
                 /\ io' # <<>>
                 /\ Len(Writes(io')) <= 1
                 /\ state'.device # None \/ state.device # None => Len(Writes(io')) = 1
                 /\ OkWrite(io') <=> state'.saved_brightness = None
                 /\ \A i \in 1..Len(io') :
                      io'[i].op = "write" =>
                          IsRestoreTarget(io'[i].val, Unwrap(Saved), state.restore_min,
                                          MaxAtWrite(io'))]_vars

\* The process has exited after a final restore whose one write failed: the
\* value is still saved.
C14_Witness ==
    /\ pc = "exit"
    /\ event = "exit"
    /\ Len(Writes(io)) = 1
    /\ ~OkWrite(io)
    /\ Saved # None

\* select! can take its shutdown branch: the signal has arrived and run_loop
\* is suspended in an .await.
ShutdownReady == signalled /\ pc \in AwaitPoints

\* The step in which main takes the shutdown branch and exits.
ShutdownTaken == pc' = "exit" /\ event' = "exit"

\* The program started as its defaults have it: --restore-min 1, no --device.
FairInit ==
    /\ Init
    /\ state.restore_min = 1
    /\ config.device = None

\* The program, so started, under the fairness its scheduling gives.  The
\* synchronous code of main and run_loop between two .await points runs on
\* (weak fairness of main_warmup and builder).  select! polls the shutdown
\* branch every time run_loop is pending in an .await, so a shutdown that is
\* ready again and again is taken: strong fairness of the shutdown step,
\* SF_vars(shutdown), written out with its enabling condition ShutdownReady.
\* Nothing is assumed of the bus: a connect, a sleep or the wait for a
\* notification may last for ever.
FairSpec ==
    /\ FairInit
    /\ [][Next]_vars
    /\ WF_vars(main_warmup)
    /\ WF_vars(builder)
    /\ ([]<>ShutdownReady => []<><<ShutdownTaken>>_vars)

\* C15: once the signal has arrived the process eventually exits, wherever
\* the loop stands; and wherever run_loop is suspended (connecting, sleeping
\* a backoff delay, waiting for the next notification, or in any other
\* .await) the shutdown can be taken at once, without the sleep elapsing or
\* a notification arriving first.
C15_ShutdownExits ==
    /\ signalled ~> pc = "exit"
    /\ []((signalled /\ pc \in {"connect", "build", "get", "subscribe", "stream", "sleep"})
            => ENABLED shutdown)

\* The process has exited on a signal that found the loop sleeping the
\* largest backoff delay.
C15_Witness ==
    /\ pc = "exit"
    /\ signalled
    /\ since_reset = BackoffMax
    /\ heard = Silence
    /\ event = "exit"

\* Every --device there can be: none, or any name.
Overrides == {None} \cup {Some(n) : n \in DeviceNames}

\* The device C16 has discovery choose: the override if there is one, else
\* intel_backlight if enumerated, else the first name in dictionary order.
Preferred(device_override, devices) ==
    IF device_override # None THEN Unwrap(device_override)
    ELSE IF "intel_backlight" \in devices THEN "intel_backlight"
    ELSE IF "acpi_video0" \in devices THEN "acpi_video0"
    ELSE "amdgpu_bl1"

\* C16: discovery fails when the enumeration fails or is empty, and when an
\* override is given that is not enumerated, and it then reads no
\* max_brightness.  Otherwise it reads max_brightness of exactly one device:
\* the override if there is one, else intel_backlight if enumerated, else the
\* smallest name; it returns that device with the value read when the read
\* succeeds and an error when it fails.  This is stated of discover_device
\* as main's warm-up is about to call it, for every override and every
\* enumeration, and of every discovery a step of the program has run.
C16_Discovery ==
    /\ pc = "start" =>
         /\ \A o \in Overrides : \A devices \in SUBSET DeviceNames :
              LET out == discover_listed(Machine, o, devices)
                  none == devices = {} \/ (o # None /\ Unwrap(o) \notin devices)
              IN  /\ out # {}
                  /\ none => \A d \in out : ~d.r.ok /\ d.s.io = <<>>
                  /\ ~none =>
                       /\ \A d \in out :
                            /\ Len(d.s.io) = 1
                            /\ d.s.io[1].op = "read_max"
                            /\ d.s.io[1].dev = Preferred(o, devices)
                            /\ d.r.ok <=> d.s.io[1].res = "ok"
                            /\ d.r.ok =>
                                 d.r.val = Backlight(Preferred(o, devices), d.s.io[1].val)
                       /\ \E d \in out : d.r.ok
                       /\ \E d \in out : ~d.r.ok
         /\ \A o \in Overrides : \A d \in discover_device(Machine, o) :
              /\ d.s.io[1].op = "list"
              /\ d.s.io[1].res # "ok" => ~d.r.ok /\ Len(d.s.io) = 1
    /\ (io # <<>> /\ io[1].op = "list") =>
         /\ (io[1].res # "ok" \/ io[1].val = 0) => Len(io) = 1 /\ state.device = None
         /\ Len(io) >= 2 =>
              /\ io[2].op = "read_max"
              /\ config.device # None => io[2].dev = Unwrap(config.device)
              /\ (config.device = None /\ io[1].val = Cardinality(DeviceNames)) =>
                   io[2].dev = "intel_backlight"
              /\ io[2].res # "ok" => Len(io) = 2 /\ state.device = None
              /\ (io[2].res = "ok" /\ state.device # None) =>
                   Unwrap(state.device) = Backlight(io[2].dev, io[2].val)

\* Discovery without an override has enumerated two devices and selected
\* acpi_video0: intel_backlight was not among them, and acpi_video0 is the
\* smaller of the other two.
C16_Witness ==
    /\ config.device = None
    /\ io # <<>>
    /\ io[1] = IoEntry("list", "", 2, "ok")
    /\ state.device # None
    /\ Unwrap(state.device).name = "acpi_video0"

\* C17 as stated: the Backoff is reset when the stream is subscribed and at
\* no other time, so an attempt that fails before it is subscribed, after a
\* delay was already slept since the stream was last subscribed, sleeps a
\* delay that has grown beyond the base.
C17_AsStated ==
    [][(/\ heard' \in {Failure("connect"), Failure("builder"), Failure("build"),
                        Failure("subscribe")}
        /\ retrying) => delay' > BackoffBase]_vars

\* C17, amended: reset() is called when Connection::system() succeeds and at
\* no other time: that step puts the delay back to the base, every other
\* step leaves it or doubles it, subscribing included.  So it is consecutive
\* failures of the connect step that see the delay double up to the cap; an
\* attempt that fails after its connect succeeded sleeps the base delay
\* however many attempts failed before it.
C17_ResetOnConnect ==
    [][/\ (pc = "connect" /\ pc' = "builder") =>
            /\ heard' = Silence
            /\ backoff'.current = BackoffBase
            /\ since_reset' = 0
       /\ ~(pc = "connect" /\ pc' = "builder") =>
            /\ backoff'.current >= backoff.current
            /\ since_reset' # 0 \/ since_reset = 0
       /\ (pc = "subscribe" /\ pc' = "stream") => backoff' = backoff
       /\ (heard' = Failure("connect") /\ since_reset # 0) =>
            delay' = Min(2 * since_reset, BackoffMax)
       /\ heard' \in {Failure("builder"), Failure("build"), Failure("subscribe")} =>
            delay' = BackoffBase]_vars

\* A connect has succeeded after a delay was slept, the stream not subscribed
\* in between: the Backoff, doubled by that delay, is at the base again.
C17_Witness ==
    /\ pc = "builder"
    /\ retrying
    /\ backoff.current = BackoffBase
    /\ since_reset = 0

\* The item is a change of LidClosed on logind's Manager to a bool.
IsLidChange(item) ==
    /\ item.decodes
    /\ item.interface = LOGIND_IFACE
    /\ item.lid \in {"true", "false"}

\* C18: a connection reaches its stream only through the subscribe step, and
\* that only through its probe, so whatever the probe hands to the engine is
\* handled before the first notification.  A lid event is handled only by a
\* probe or by a notification step, and a notification step takes one item
\* from the stream and is done with it before the next: the item is handed
\* to the engine, as the closed or open event it holds, exactly when it
\* decodes, names logind's Manager and holds a bool for LidClosed; any other
\* item is dropped without touching the State or the device, and the stream
\* goes on.
C18_ProbeThenStream ==
    [][/\ (pc' = "stream" /\ pc # "stream") => pc = "subscribe"
       /\ (pc' = "subscribe" /\ pc # "subscribe") => (pc = "get" /\ heard'.src = "get")
       /\ event' \in {"closed", "open"} =>
            \/ pc = "get" /\ heard'.src = "get"
            \/ pc = "stream" /\ heard'.src = "stream"
       /\ heard'.src = "stream" =>
            /\ pc = "stream" /\ pc' = "stream"
            /\ heard' \in Signals
            /\ event' = "closed" <=> (IsLidChange(heard') /\ heard'.lid = "true")
            /\ event' = "open" <=> (IsLidChange(heard') /\ heard'.lid = "false")
            /\ ~IsLidChange(heard') =>
                 /\ event' = "none"
                 /\ state' = state
                 /\ io' = <<>> /\ classified' = <<>>
                 /\ last_lid' = last_lid]_vars

\* The stream has yielded a change of LidClosed to false after one to true
\* was handled, and the open event restored the brightness.
C18_Witness ==
    /\ pc = "stream"
    /\ heard = Heard("stream", TRUE, LOGIND_IFACE, "false")
    /\ event = "open"
    /\ OkWrite(io)
    /\ restored

\* C19: a closed event with nothing saved runs the close transition from its
\* start: discovery first when no device is selected, the read of the
\* brightness first when one is.  When the discovery or the read fails, the
\* step leaves saved_brightness absent, writes nothing, gives the one error
\* to classification and goes on; so the next closed event finds nothing
\* saved and runs the transition from its start again.  When the read
\* succeeds its value is saved and the first write is that of 0.
C19_CloseFailsEarly ==
    [][(event' = "closed" /\ Saved = None) =>
         /\ io' # <<>>
         /\ io'[1].op = IF state.device = None THEN "list" ELSE "read"
         /\ (Reads(io') = <<>> \/ Reads(io')[1].res # "ok") =>
              /\ state'.saved_brightness = None
              /\ Writes(io') = <<>>
              /\ Len(classified') = 1
              /\ ~dim_pending'
              /\ pc' \in {"subscribe", "stream"}
         /\ (Reads(io') # <<>> /\ Reads(io')[1].res = "ok") =>
              /\ state'.saved_brightness = Some(Reads(io')[1].val)
              /\ Writes(io') # <<>>
              /\ Writes(io')[1].val = 0]_vars

\* A closed event whose read of the brightness failed: nothing is saved,
\* nothing was written, the error was classified.
C19_Witness ==
    /\ event = "closed"
    /\ Reads(io) # <<>>
    /\ Reads(io)[1].res # "ok"
    /\ Writes(io) = <<>>
    /\ Saved = None
    /\ Len(classified) = 1

\* C20: when the bus connection was opened and the attempt then ends (the
\* proxy builder or its build fails, the subscribe fails, or the stream
\* ends), the delay slept is the base delay of 250 ms; a step that starts a
\* sleep of more than the base delay is a failed connect.
C20_BaseDelayOnceConnected ==
    [][/\ heard' \in {Failure("builder"), Failure("build"), Failure("subscribe"),
                       StreamEnd} =>
            /\ pc' = "sleep"
            /\ delay' = BackoffBase
            /\ delay' = 250
       /\ (pc' = "sleep" /\ pc # "sleep" /\ delay' > BackoffBase) =>
            /\ pc = "connect"
            /\ heard' = Failure("connect")
       /\ pc' = "sleep" => delay' >= BackoffBase]_vars

\* The stream of a connection has ended and the loop sleeps the base delay.
C20_Witness ==
    /\ pc = "sleep"
    /\ heard = StreamEnd
    /\ delay = BackoffBase
    /\ backoff.current = 2 * BackoffBase
====
